---- MODULE Spec2Model ----
(***************************************************************************)
(* A model of the startup monitor (monitor/startup_monitor.go): the sync   *)
(* loop, promote-and-retire, the fallback engine and the revision locator, *)
(* over a small file system made of the root manifest, the startup-monitor *)
(* manifest, the last-known-good link and the revision directories.        *)
(*                                                                         *)
(* File names are sequences of tokens: "T" is the target name, "-pod-" the *)
(* literal separator, every other token is one character.  Revision        *)
(* labels are sequences of characters, parsed the way strconv.Atoi does.   *)
(***************************************************************************)
EXTENDS Integers, Sequences, FiniteSets, TLC

VARIABLES
    root,              \* {manifestsPath}/{target}-pod.yaml: NoFile or its bytes
    marker,            \* {manifestsPath}/{target}-startup-monitor.yaml exists
    lkg,               \* {staticPodResourcesPath}/{target}-last-known-good
    listing,           \* entries of staticPodResourcesPath (besides lkg)
    manifests,         \* revisions whose revisioned manifest file exists
    revision,          \* sm.revision
    timeout,           \* sm.timeout
    monitorTimeStamp,  \* sm.monitorTimeStamp, 0 is the zero time
    now,               \* the wall clock
    healthy,           \* what isTargetHealthy() answers at the moment
    running,           \* the context of Run has not been cancelled
    last,              \* what the latest sync did and the state it started from
    inflight           \* where a sync interleaved with the installer stands

vars == <<root, marker, lkg, listing, manifests, revision, timeout,
          monitorTimeStamp, now, healthy, running, last, inflight>>

(***************************************************************************)
(* Bounds                                                                  *)
(***************************************************************************)
MaxTimeout == 1
MaxStart == 2
MaxEntries == 3

(***************************************************************************)
(* Characters, strconv.Atoi and fmt.Sprintf("%d")                          *)
(***************************************************************************)
Digits == <<"0", "1", "2", "3", "4", "5", "6", "7", "8", "9">>

IsDigit(c) == \E i \in 1..10 : Digits[i] = c

DigitVal(c) == (CHOOSE i \in 1..10 : Digits[i] = c) - 1

\* the value of the first n digits of s
RECURSIVE DigitsValUpTo(_, _)
DigitsValUpTo(s, n) ==
    IF n = 0 THEN 0 ELSE 10 * DigitsValUpTo(s, n - 1) + DigitVal(s[n])

DigitsVal(s) == DigitsValUpTo(s, Len(s))

AllDigits(s) == \A i \in 1..Len(s) : IsDigit(s[i])

\* strconv.Atoi: an optional sign and then decimal digits.  (The set binds the
\* argument to its value, so that it is computed once.)
AtoiOf(s) ==
    LET signed == Len(s) > 0 /\ s[1] \in {"+", "-"}
        body   == IF signed THEN SubSeq(s, 2, Len(s)) ELSE s
    IN  IF Len(body) = 0 \/ ~AllDigits(body)
        THEN [ok |-> FALSE, val |-> 0]
        ELSE [ok |-> TRUE,
              val |-> IF signed /\ s[1] = "-" THEN 0 - DigitsVal(body) ELSE DigitsVal(body)]

Atoi(str) == CHOOSE y \in {AtoiOf(x) : x \in {str}} : TRUE

RECURSIVE NatToDigits(_)
NatToDigits(n) ==
    IF n < 10 THEN <<Digits[n + 1]>>
    ELSE NatToDigits(n \div 10) \o <<Digits[(n % 10) + 1]>>

Itoa(n) == IF n < 0 THEN <<"-">> \o NatToDigits(0 - n) ELSE NatToDigits(n)

(***************************************************************************)
(* Pods and the manifest codec (resourceread.ReadPodV1 / WritePodV1OrDie)  *)
(***************************************************************************)
NoFile == [kind |-> "nofile"]
Garbage == [kind |-> "garbage"]
NoLabel == <<"nolabel">>
TargetPodName == "target-pod"
FallbackKey == "fallback-for-revision"

\* a pod: labels["revision"] (NoLabel when the key is missing), annotations
\* as a set of <<key, value>> pairs, and the uid
Pod(name, label, annotations, uid) ==
    [name |-> name, label |-> label, annotations |-> annotations, uid |-> uid]

WritePodV1OrDie(pod) == [kind |-> "yaml", pod |-> pod]

ReadPodV1(bytes) ==
    IF bytes.kind = "yaml" THEN [err |-> "nil", pod |-> bytes.pod]
    ELSE [err |-> "decode", pod |-> Pod("", NoLabel, {}, 0)]

SetAnnotation(annotations, key, value) ==
    {p \in annotations : p[1] # key} \cup {<<key, value>>}

\* the revisioned manifest the installer wrote for revision r
OriginalUID == 0
UIDs == {0, 1, 2}

\* uuid.NewUUID(): an identifier that is not in use
NewUUID(used) == CHOOSE u \in UIDs \ used : \A v \in UIDs \ used : u <= v

SourceAnnotations(r) == IF r % 2 = 0 THEN {<<"owner", "installer">>} ELSE {}

\* revisions whose pod the installer wrote without a revision label
UnlabelledRevisions == {11}

\* revisions whose manifest file holds bytes that decode to no pod
GarbledRevisions == {10}

RevisionedManifest(r) ==
    IF r \in GarbledRevisions THEN Garbage
    ELSE WritePodV1OrDie(Pod(TargetPodName,
                             IF r \in UnlabelledRevisions THEN NoLabel ELSE Itoa(r),
                             SourceAnnotations(r), OriginalUID))

(***************************************************************************)
(* File names under staticPodResourcesPath                                 *)
(***************************************************************************)
PodDirName(r) == <<"T", "-pod-">> \o Itoa(r)
LastKnownGoodName == <<"T", "-last-known-good">>

Dir(name) == [name |-> name, isDir |-> TRUE]
File(name) == [name |-> name, isDir |-> FALSE]

NoLink == [kind |-> "none"]
LinkDir == [kind |-> "dir"]
LinkTo(r) == [kind |-> "link", rev |-> r]

\* paths: path.Join of a root directory and names
staticPodResourcesPath == "resources"
manifestsPath == "manifests"
PodFileName == <<"T", "-pod.yaml">>
MonitorFileName == <<"T", "-startup-monitor.yaml">>

lastKnownGoodManifestDstPath == <<staticPodResourcesPath, LastKnownGoodName>>
targetManifestPathFor(r) == <<staticPodResourcesPath, PodDirName(r), PodFileName>>
rootTargetManifestPath == <<manifestsPath, PodFileName>>
monitorManifestPath == <<manifestsPath, MonitorFileName>>

\* the calls of sm.io that change the file system
Mutating == {"Remove:lkg", "Symlink", "Remove:marker", "Remove:root", "WriteFile:root"}

\* mutant: Symlink is called with its two arguments exchanged
MutatedPath_SwappedSymlink(op) ==
    IF op = "Remove:lkg" THEN lastKnownGoodManifestDstPath
    ELSE IF op = "Symlink" THEN targetManifestPathFor(revision)
    ELSE IF op = "Remove:marker" THEN monitorManifestPath
    ELSE rootTargetManifestPath

\* the path a mutating call is made on: the argument of Remove and of
\* WriteFile, the newname of Symlink
MutatedPath(op) ==
    IF op = "Remove:lkg" THEN lastKnownGoodManifestDstPath
    ELSE IF op = "Symlink" THEN lastKnownGoodManifestDstPath
    ELSE IF op = "Remove:marker" THEN monitorManifestPath
    ELSE rootTargetManifestPath

(***************************************************************************)
(* The file-system port (realFS): results of the calls in a given state.   *)
(* A call named in `fail` fails with an i/o error whatever the state.      *)
(***************************************************************************)
FailPoints == {"ReadFile:root", "Stat:lkg", "Remove:lkg", "Symlink", "Remove:marker",
               "ReadDir", "Stat:prev", "ReadFile:lkg", "Remove:root", "WriteFile:root"}

FS(r, l, m) == [root |-> r, lkg |-> l, marker |-> m]

\* os.Stat follows symbolic links: a link whose target is gone does not exist
StatLkg(l, fail) ==
    IF fail = "Stat:lkg" THEN "ioerr"
    ELSE IF l.kind = "none" THEN "notexist"
    ELSE IF l.kind = "dir" THEN "dir"
    ELSE IF l.rev \in manifests THEN "file" ELSE "notexist"

StatRevisioned(r, fail) ==
    IF fail = "Stat:prev" THEN "ioerr"
    ELSE IF r \in manifests THEN "file" ELSE "notexist"

\* os.Symlink fails when the new name is taken, by whatever it is
SymlinkErr(l, fail) ==
    IF fail = "Symlink" THEN "ioerr"
    ELSE IF l.kind # "none" THEN "eexist" ELSE "nil"

\* os.Remove of a missing file is an error that IsNotExist recognises
RemoveErr(exists, failed) ==
    IF failed THEN "ioerr" ELSE IF exists THEN "nil" ELSE "notexist"

\* ioutil.ReadFile through the link
ReadFileLkg(l, fail) ==
    IF fail = "ReadFile:lkg" THEN [err |-> "ioerr", bytes |-> Garbage]
    ELSE IF l.kind = "link" /\ l.rev \in manifests
         THEN [err |-> "nil", bytes |-> RevisionedManifest(l.rev)]
    ELSE IF l.kind = "dir" THEN [err |-> "isdir", bytes |-> Garbage]
    ELSE [err |-> "notexist", bytes |-> Garbage]

ReadFileRoot(r, fail) ==
    IF fail = "ReadFile:root" THEN [err |-> "ioerr", bytes |-> Garbage]
    ELSE IF r = NoFile THEN [err |-> "notexist", bytes |-> Garbage]
    ELSE [err |-> "nil", bytes |-> r]

\* ioutil.ReadDir lists without following links: the last-known-good link is
\* a non-directory entry, a directory in its place is a directory entry
ReadDir(l, fail) ==
    IF fail = "ReadDir" THEN [err |-> "ioerr", files |-> <<>>]
    ELSE [err |-> "nil",
          files |-> listing \o (IF l.kind = "none" THEN <<>>
                                ELSE <<[name |-> LastKnownGoodName, isDir |-> l.kind = "dir"]>>)]

(***************************************************************************)
(* findPreviousRevision                                                    *)
(***************************************************************************)
Separator == <<"T", "-pod-">>

HasPrefix(name) == Len(name) >= 1 /\ name[1] = "T"

\* where the separator starts in name
SeparatorAt(name) ==
    {i \in 1..(Len(name) - 1) : name[i] = Separator[1] /\ name[i + 1] = Separator[2]}

\* strings.Split(name, targetName + "-pod-")
Split(name) ==
    LET at == SeparatorAt(name)
    IN  IF Cardinality(at) = 1
        THEN LET i == CHOOSE j \in at : TRUE
             IN  <<SubSeq(name, 1, i - 1), SubSeq(name, i + 2, Len(name))>>
        ELSE IF at = {} THEN <<name>>
        ELSE [k \in 1..(Cardinality(at) + 1) |-> <<>>]

\* mutant: the revisions are left in listing order
Sort_Unsorted(s) == s

\* sort.IntSlice(allRevisions).Sort()
Sort(s) == SortSeq(s, LAMBDA x, y : x < y)

\* mutant: plain files are not skipped
Skipped_PrefixOnly(file) == ~HasPrefix(file.name)

\* the body of the loop for one entry: skipped, an error, or a revision
Skipped(file) == ~file.isDir \/ ~HasPrefix(file.name)

EntryOf(parts) ==
    IF Len(parts) # 2 THEN [err |-> "format", rev |-> 0]
    ELSE LET parsed == Atoi(parts[2])
         IN  IF ~parsed.ok THEN [err |-> "atoi", rev |-> 0]
             ELSE [err |-> "nil", rev |-> parsed.val]

Entry(file) == CHOOSE y \in {EntryOf(x) : x \in {Split(file.name)}} : TRUE

\* mutant: an entry that does not parse is skipped
CollectedFrom_SkipMalformed(entries) ==
    LET good(e) == e.err = "nil"
        kept == SelectSeq(entries, good)
    IN  [err |-> "nil", revs |-> [i \in 1..Len(kept) |-> kept[i].rev]]

\* the loop over the listing: the revisions collected, or the first error
CollectedFrom(entries) ==
    LET bad == {i \in 1..Len(entries) : entries[i].err # "nil"}
        first == CHOOSE i \in bad : \A j \in bad : i <= j
    IN  IF bad # {} THEN [err |-> entries[first].err, revs |-> <<>>]
        ELSE [err |-> "nil", revs |-> [i \in 1..Len(entries) |-> entries[i].rev]]

RECURSIVE Entries(_, _)
Entries(files, i) ==
    IF i > Len(files) THEN <<>>
    ELSE IF Skipped(files[i]) THEN Entries(files, i + 1)
    ELSE <<Entry(files[i])>> \o Entries(files, i + 1)

CollectRevisions(files) == CHOOSE y \in {CollectedFrom(x) : x \in {Entries(files, 1)}} : TRUE

\* mutant: the highest revision is taken
PreviousOf_Highest(all) ==
    IF all.err # "nil" THEN [rev |-> 0, found |-> FALSE, err |-> all.err]
    ELSE IF Len(all.revs) < 2 THEN [rev |-> 0, found |-> FALSE, err |-> "nil"]
    ELSE [rev |-> Sort(all.revs)[Len(all.revs)], found |-> TRUE, err |-> "nil"]

\* mutant: a single revision directory is taken as the previous revision
PreviousOf_SingleIsEnough(all) ==
    IF all.err # "nil" THEN [rev |-> 0, found |-> FALSE, err |-> all.err]
    ELSE IF Len(all.revs) < 1 THEN [rev |-> 0, found |-> FALSE, err |-> "nil"]
    ELSE IF Len(all.revs) = 1 THEN [rev |-> all.revs[1], found |-> TRUE, err |-> "nil"]
    ELSE [rev |-> Sort(all.revs)[Len(all.revs) - 1], found |-> TRUE, err |-> "nil"]

PreviousOf(all) ==
    IF all.err # "nil" THEN [rev |-> 0, found |-> FALSE, err |-> all.err]
    ELSE IF Len(all.revs) < 2 THEN [rev |-> 0, found |-> FALSE, err |-> "nil"]
    ELSE [rev |-> Sort(all.revs)[Len(all.revs) - 1], found |-> TRUE, err |-> "nil"]

findPreviousRevision(l, fail) ==
    LET dir == ReadDir(l, fail)
    IN  IF dir.err # "nil" THEN [rev |-> 0, found |-> FALSE, err |-> dir.err]
        ELSE CHOOSE y \in {PreviousOf(x) : x \in {CollectRevisions(dir.files)}} : TRUE

(***************************************************************************)
(* fileExists, createLastKnowGoodRevisionFor,                              *)
(* createLastKnowGoodRevisionAndDestroy                                    *)
(***************************************************************************)
\* mutant: a directory counts as an existing file
fileExists_DirIsAFile(stat) ==
    IF stat \in {"dir", "file"} THEN [exists |-> TRUE, err |-> "nil"]
    ELSE IF stat = "notexist" THEN [exists |-> FALSE, err |-> "nil"]
    ELSE [exists |-> FALSE, err |-> stat]

fileExists(stat) ==
    IF stat = "dir" THEN [exists |-> FALSE, err |-> "isdir"]
    ELSE IF stat = "file" THEN [exists |-> TRUE, err |-> "nil"]
    ELSE IF stat = "notexist" THEN [exists |-> FALSE, err |-> "nil"]
    ELSE [exists |-> FALSE, err |-> stat]

\* each procedure yields the file system it leaves, its error and the calls it made
Ret(f, err, ops) == [fs |-> f, err |-> err, ops |-> ops]

\* mutant: the link is created although the old one could not be removed
createLastKnowGoodRevisionFor_IgnoreRemoveError(f, rev, strict, fail) ==
    LET ex  == fileExists(StatLkg(f.lkg, fail))
        rm  == RemoveErr(TRUE, fail = "Remove:lkg")
        ops0 == IF strict THEN <<"Stat:lkg">> ELSE <<>>
        removing == strict /\ ex.exists
        f1  == IF removing /\ rm = "nil" THEN [f EXCEPT !.lkg = NoLink] ELSE f
        ops1 == IF removing THEN Append(ops0, "Remove:lkg") ELSE ops0
        sl  == SymlinkErr(f1.lkg, fail)
    IN  IF strict /\ ex.err # "nil" THEN Ret(f, ex.err, ops0)
        ELSE IF sl # "nil" THEN Ret(f1, sl, Append(ops1, "Symlink"))
        ELSE Ret([f1 EXCEPT !.lkg = LinkTo(rev)], "nil", Append(ops1, "Symlink"))

createLastKnowGoodRevisionFor(f, rev, strict, fail) ==
    LET ex  == fileExists(StatLkg(f.lkg, fail))
        rm  == RemoveErr(TRUE, fail = "Remove:lkg")
        ops0 == IF strict THEN <<"Stat:lkg">> ELSE <<>>
        removing == strict /\ ex.exists
        f1  == IF removing THEN [f EXCEPT !.lkg = NoLink] ELSE f
        ops1 == IF removing THEN Append(ops0, "Remove:lkg") ELSE ops0
        sl  == SymlinkErr(f1.lkg, fail)
    IN  IF strict /\ ex.err # "nil" THEN Ret(f, ex.err, ops0)
        ELSE IF removing /\ rm # "nil" THEN Ret(f, rm, ops1)
        ELSE IF sl # "nil" THEN Ret(f1, sl, Append(ops1, "Symlink"))
        ELSE Ret([f1 EXCEPT !.lkg = LinkTo(rev)], "nil", Append(ops1, "Symlink"))

\* mutant: the marker is removed first, the link is created after
createLastKnowGoodRevisionAndDestroy_MarkerFirst(f, fail) ==
    LET rm   == RemoveErr(f.marker, fail = "Remove:marker")
        f1   == [f EXCEPT !.marker = FALSE]
        link == createLastKnowGoodRevisionFor(f1, revision, TRUE, fail)
    IN  IF rm # "nil" THEN Ret(f, rm, <<"Remove:marker">>)
        ELSE Ret(link.fs, link.err, <<"Remove:marker">> \o link.ops)

createLastKnowGoodRevisionAndDestroy(f, fail) ==
    LET link == createLastKnowGoodRevisionFor(f, revision, TRUE, fail)
        rm   == RemoveErr(link.fs.marker, fail = "Remove:marker")
    IN  IF link.err # "nil" THEN link
        ELSE IF rm # "nil" THEN Ret(link.fs, rm, Append(link.ops, "Remove:marker"))
        ELSE Ret([link.fs EXCEPT !.marker = FALSE], "nil", Append(link.ops, "Remove:marker"))

(***************************************************************************)
(* readTargetPod, loadRootTargetPodAndExtractRevision,                     *)
(* fallbackToPreviousRevision                                              *)
(***************************************************************************)
readTargetPod(read) ==
    IF read.err # "nil" THEN [err |-> read.err, pod |-> Pod("", NoLabel, {}, 0)]
    ELSE ReadPodV1(read.bytes)

\* mutant: a negative revision label is accepted
loadRootTargetPodAndExtractRevision_AllowNegative(f, fail) ==
    LET cur == readTargetPod(ReadFileRoot(f.root, fail))
        parsed == Atoi(cur.pod.label)
    IN  IF cur.err # "nil" THEN [rev |-> 0, err |-> cur.err]
        ELSE IF cur.pod.label = NoLabel THEN [rev |-> 0, err |-> "nolabel"]
        ELSE IF Len(cur.pod.label) = 0 THEN [rev |-> 0, err |-> "emptylabel"]
        ELSE IF ~parsed.ok THEN [rev |-> 0, err |-> "invalidlabel"]
        ELSE [rev |-> parsed.val, err |-> "nil"]

loadRootTargetPodAndExtractRevision(f, fail) ==
    LET cur == readTargetPod(ReadFileRoot(f.root, fail))
        parsed == Atoi(cur.pod.label)
    IN  IF cur.err # "nil" THEN [rev |-> 0, err |-> cur.err]
        ELSE IF cur.pod.label = NoLabel THEN [rev |-> 0, err |-> "nolabel"]
        ELSE IF Len(cur.pod.label) = 0 THEN [rev |-> 0, err |-> "emptylabel"]
        ELSE IF ~parsed.ok \/ parsed.val < 0 THEN [rev |-> 0, err |-> "invalidlabel"]
        ELSE [rev |-> parsed.val, err |-> "nil"]

\* mutant: the root manifest is removed before the last known good pod is read
copyLastKnownGood_RemoveFirst(f, ops, fail, uid) ==
    LET lastKnownGood == readTargetPod(ReadFileLkg(f.lkg, fail))
        pod  == [lastKnownGood.pod EXCEPT
                    !.annotations = SetAnnotation(@, FallbackKey, Itoa(revision)),
                    !.uid = uid]
        f1   == [f EXCEPT !.root = NoFile]
        ops3 == ops \o <<"Remove:root", "ReadFile:lkg", "WriteFile:root">>
    IN  IF lastKnownGood.err # "nil" THEN Ret(f1, lastKnownGood.err, ops3)
        ELSE IF fail = "WriteFile:root" THEN Ret(f1, "ioerr", ops3)
        ELSE Ret([f1 EXCEPT !.root = WritePodV1OrDie(pod)], "nil", ops3)

\* mutant: the pod is written with the uid it was read with
copyLastKnownGood_KeepUID(f, ops, fail, uid) ==
    LET lastKnownGood == readTargetPod(ReadFileLkg(f.lkg, fail))
        pod  == [lastKnownGood.pod EXCEPT
                    !.annotations = SetAnnotation(@, FallbackKey, Itoa(revision))]
        rm   == RemoveErr(f.root # NoFile, fail = "Remove:root")
        f1   == IF rm = "nil" THEN [f EXCEPT !.root = NoFile] ELSE f
        ops1 == Append(ops, "ReadFile:lkg")
        ops2 == Append(ops1, "Remove:root")
        ops3 == Append(ops2, "WriteFile:root")
    IN  IF lastKnownGood.err # "nil" THEN Ret(f, lastKnownGood.err, ops1)
        ELSE IF rm \notin {"nil", "notexist"} THEN Ret(f, rm, ops2)
        ELSE IF fail = "WriteFile:root" THEN Ret(f1, "ioerr", ops3)
        ELSE Ret([f1 EXCEPT !.root = WritePodV1OrDie(pod)], "nil", ops3)

\* mutant: the fallback that published the pod removes the marker (the TODO
\* of line 214)
copyLastKnownGood_CommitSuicide(f, ops, fail, uid) ==
    LET lastKnownGood == readTargetPod(ReadFileLkg(f.lkg, fail))
        pod  == [lastKnownGood.pod EXCEPT
                    !.annotations = SetAnnotation(@, FallbackKey, Itoa(revision)),
                    !.uid = uid]
        rm   == RemoveErr(f.root # NoFile, fail = "Remove:root")
        f1   == IF rm = "nil" THEN [f EXCEPT !.root = NoFile] ELSE f
        ops1 == Append(ops, "ReadFile:lkg")
        ops2 == Append(ops1, "Remove:root")
        ops3 == Append(ops2, "WriteFile:root")
    IN  IF lastKnownGood.err # "nil" THEN Ret(f, lastKnownGood.err, ops1)
        ELSE IF rm \notin {"nil", "notexist"} THEN Ret(f, rm, ops2)
        ELSE IF fail = "WriteFile:root" THEN Ret(f1, "ioerr", ops3)
        ELSE Ret([f1 EXCEPT !.root = WritePodV1OrDie(pod), !.marker = FALSE], "nil",
                 Append(ops3, "Remove:marker"))

\* mutant: a root manifest that is not there when it is removed ends the
\* fallback with the error of Remove
copyLastKnownGood_StrictRemove(f, ops, fail, uid) ==
    LET lastKnownGood == readTargetPod(ReadFileLkg(f.lkg, fail))
        pod  == [lastKnownGood.pod EXCEPT
                    !.annotations = SetAnnotation(@, FallbackKey, Itoa(revision)),
                    !.uid = uid]
        rm   == RemoveErr(f.root # NoFile, fail = "Remove:root")
        f1   == IF rm = "nil" THEN [f EXCEPT !.root = NoFile] ELSE f
        ops1 == Append(ops, "ReadFile:lkg")
        ops2 == Append(ops1, "Remove:root")
        ops3 == Append(ops2, "WriteFile:root")
    IN  IF lastKnownGood.err # "nil" THEN Ret(f, lastKnownGood.err, ops1)
        ELSE IF rm # "nil" THEN Ret(f, rm, ops2)
        ELSE IF fail = "WriteFile:root" THEN Ret(f1, "ioerr", ops3)
        ELSE Ret([f1 EXCEPT !.root = WritePodV1OrDie(pod)], "nil", ops3)

\* lines 186-215: annotate the last known good pod, give it a new uid, remove
\* the root manifest and write the pod in its place
copyLastKnownGood(f, ops, fail, uid) ==
    LET lastKnownGood == readTargetPod(ReadFileLkg(f.lkg, fail))
        pod  == [lastKnownGood.pod EXCEPT
                    !.annotations = SetAnnotation(@, FallbackKey, Itoa(revision)),
                    !.uid = uid]
        rm   == RemoveErr(f.root # NoFile, fail = "Remove:root")
        f1   == IF rm = "nil" THEN [f EXCEPT !.root = NoFile] ELSE f
        ops1 == Append(ops, "ReadFile:lkg")
        ops2 == Append(ops1, "Remove:root")
        ops3 == Append(ops2, "WriteFile:root")
    IN  IF lastKnownGood.err # "nil" THEN Ret(f, lastKnownGood.err, ops1)
        ELSE IF rm \notin {"nil", "notexist"} THEN Ret(f, rm, ops2)
        ELSE IF fail = "WriteFile:root" THEN Ret(f1, "ioerr", ops3)
        ELSE Ret([f1 EXCEPT !.root = WritePodV1OrDie(pod)], "nil", ops3)

\* mutant: the link is created without looking for the manifest of the
\* previous revision
fallbackToPreviousRevision_NoManifestCheck(f, fail, uid) ==
    LET lastKnown == fileExists(StatLkg(f.lkg, fail))
        prev  == findPreviousRevision(f.lkg, fail)
        link  == createLastKnowGoodRevisionFor(f, prev.rev, FALSE, fail)
        ops0  == <<"Stat:lkg">>
        ops1  == Append(ops0, "ReadDir")
    IN  IF lastKnown.err # "nil" THEN Ret(f, lastKnown.err, ops0)
        ELSE IF lastKnown.exists THEN copyLastKnownGood(f, ops0, fail, uid)
        ELSE IF prev.err # "nil" THEN Ret(f, prev.err, ops1)
        ELSE IF ~prev.found THEN Ret(f, "nil", ops1)
        ELSE IF link.err # "nil" THEN Ret(link.fs, link.err, ops1 \o link.ops)
        ELSE copyLastKnownGood(link.fs, ops1 \o link.ops, fail, uid)

\* mutant: the previous revision is located and linked anew whether or not
\* a link exists
fallbackToPreviousRevision_Relink(f, fail, uid) ==
    LET lastKnown == fileExists(StatLkg(f.lkg, fail))
        prev  == findPreviousRevision(f.lkg, fail)
        prevManifest == fileExists(StatRevisioned(prev.rev, fail))
        link  == createLastKnowGoodRevisionFor(f, prev.rev, TRUE, fail)
        ops0  == <<"Stat:lkg">>
        ops1  == Append(ops0, "ReadDir")
        ops2  == Append(ops1, "Stat:prev")
    IN  IF lastKnown.err # "nil" THEN Ret(f, lastKnown.err, ops0)
        ELSE IF prev.err # "nil" THEN Ret(f, prev.err, ops1)
        ELSE IF ~prev.found THEN Ret(f, "nil", ops1)
        ELSE IF prevManifest.err # "nil" THEN Ret(f, prevManifest.err, ops2)
        ELSE IF ~prevManifest.exists THEN Ret(f, "nil", ops2)
        ELSE IF link.err # "nil" THEN Ret(link.fs, link.err, ops2 \o link.ops)
        ELSE copyLastKnownGood(link.fs, ops2 \o link.ops, fail, uid)

fallbackToPreviousRevision(f, fail, uid) ==
    LET lastKnown == fileExists(StatLkg(f.lkg, fail))
        prev  == findPreviousRevision(f.lkg, fail)
        prevManifest == fileExists(StatRevisioned(prev.rev, fail))
        link  == createLastKnowGoodRevisionFor(f, prev.rev, FALSE, fail)
        ops0  == <<"Stat:lkg">>
        ops1  == Append(ops0, "ReadDir")
        ops2  == Append(ops1, "Stat:prev")
    IN  IF lastKnown.err # "nil" THEN Ret(f, lastKnown.err, ops0)
        ELSE IF lastKnown.exists THEN copyLastKnownGood(f, ops0, fail, uid)
        ELSE IF prev.err # "nil" THEN Ret(f, prev.err, ops1)
        ELSE IF ~prev.found THEN Ret(f, "nil", ops1)
        ELSE IF prevManifest.err # "nil" THEN Ret(f, prevManifest.err, ops2)
        ELSE IF ~prevManifest.exists THEN Ret(f, "nil", ops2)
        ELSE IF link.err # "nil" THEN Ret(link.fs, link.err, ops2 \o link.ops)
        ELSE copyLastKnownGood(link.fs, ops2 \o link.ops, fail, uid)

(***************************************************************************)
(* sync                                                                    *)
(***************************************************************************)
\* mutant: the revision check is skipped
RevisionMismatch_Never(cur) == FALSE

\* mutant: only a newer revision at the root path counts as a mismatch
RevisionMismatch_OnlyNewer(cur) == cur > revision

RevisionMismatch(cur) == revision # cur

Stamp(t) == IF monitorTimeStamp = 0 THEN t ELSE monitorTimeStamp

\* mutant: the deadline itself counts as timed out
TimedOut_AtDeadline(t, stamp) == t >= stamp + timeout

\* time.Now().After(sm.monitorTimeStamp.Add(sm.timeout))
TimedOut(t, stamp) == t > stamp + timeout

\* what one sync does: t1 and t2 are the two readings of time.Now()
Outcome(kind, f, stamp, err, healthCalled, ops) ==
    [outcome |-> kind, fs |-> f, stamp |-> stamp, err |-> err,
     healthCalled |-> healthCalled, ops |-> ops]

\* the outcome of a sync that called one of the two procedures
Called(kind, ret, stamp) ==
    Outcome(kind, ret.fs, stamp, ret.err, TRUE, <<"ReadFile:root">> \o ret.ops)

\* mutant: the timeout is checked before the health of the target
syncMatched_TimeoutFirst(f, fail, t1, t2, uid) ==
    IF TimedOut(t2, Stamp(t1))
    THEN Called("fallback", fallbackToPreviousRevision(f, fail, uid), Stamp(t1))
    ELSE IF healthy
    THEN Called("promote", createLastKnowGoodRevisionAndDestroy(f, fail), Stamp(t1))
    ELSE Outcome("wait", f, Stamp(t1), "nil", TRUE, <<"ReadFile:root">>)

\* mutant: no fallback over a root manifest that a fallback of this monitor
\* published
syncMatched_FallbackOnce(f, fail, t1, t2, uid) ==
    IF healthy
    THEN Called("promote", createLastKnowGoodRevisionAndDestroy(f, fail), Stamp(t1))
    ELSE IF TimedOut(t2, Stamp(t1)) /\ <<FallbackKey, Itoa(revision)>> \notin f.root.pod.annotations
    THEN Called("fallback", fallbackToPreviousRevision(f, fail, uid), Stamp(t1))
    ELSE Outcome("wait", f, Stamp(t1), "nil", TRUE, <<"ReadFile:root">>)

syncMatched(f, fail, t1, t2, uid) ==
    IF healthy
    THEN Called("promote", createLastKnowGoodRevisionAndDestroy(f, fail), Stamp(t1))
    ELSE IF TimedOut(t2, Stamp(t1))
    THEN Called("fallback", fallbackToPreviousRevision(f, fail, uid), Stamp(t1))
    ELSE Outcome("wait", f, Stamp(t1), "nil", TRUE, <<"ReadFile:root">>)

syncLoaded(cur, f, fail, t1, t2, uid) ==
    IF cur.err # "nil"
    THEN Outcome("error", f, monitorTimeStamp, cur.err, FALSE, <<"ReadFile:root">>)
    ELSE IF RevisionMismatch(cur.rev)
    THEN Outcome("stale", f, monitorTimeStamp, "nil", FALSE, <<"ReadFile:root">>)
    ELSE syncMatched(f, fail, t1, t2, uid)

sync(f, fail, t1, t2, uid) ==
    syncLoaded(loadRootTargetPodAndExtractRevision(f, fail), f, fail, t1, t2, uid)

(***************************************************************************)
(* Initial states: what the installer left on the node                     *)
(***************************************************************************)
PinnedRevisions == {8, 12}
RootRevisions == {8, 12}
BadLabels == {NoLabel, <<>>, <<"-", "1">>, <<"F", "F">>}
LinkedRevisions == {7, 12}
PrunedRevisions == {7, 9}

Listings ==
    { <<>>,
      <<Dir(PodDirName(12))>>,
      <<Dir(PodDirName(7)), Dir(PodDirName(12)), Dir(PodDirName(9))>>,
      <<Dir(PodDirName(8)), Dir(PodDirName(12)), Dir(PodDirName(7))>>,
      <<Dir(PodDirName(9)), File(PodDirName(13)), Dir(PodDirName(12)), Dir(<<"T", "-pod-", "F", "F">>)>> }

\* the revisions that have a well-formed directory in a listing
DirRevisions(files) ==
    {r \in 0..13 : \E i \in 1..Len(files) : files[i] = Dir(PodDirName(r))}

RootFiles == {RevisionedManifest(r) : r \in RootRevisions}

BadRootFiles ==
    {Garbage} \cup {WritePodV1OrDie(Pod(TargetPodName, label, {}, OriginalUID)) : label \in BadLabels}

\* no sync is in progress
Idle == [at |-> "idle"]

NoSync ==
    [kind |-> "none", fail |-> "none", outcome |-> "none", err |-> "nil",
     healthy |-> FALSE, healthCalled |-> FALSE, ops |-> <<>>, at |-> 0, timedOut |-> FALSE,
     pre |-> [fs |-> FS(NoFile, NoLink, FALSE), stamp |-> 0]]

\* a root manifest that cannot be loaded is looked at on an otherwise empty node
Init ==
    /\ \/ /\ root \in RootFiles
          /\ listing \in Listings
          /\ manifests \in {DirRevisions(listing) \ pruned : pruned \in SUBSET PrunedRevisions}
          /\ lkg \in {NoLink, LinkDir} \cup {LinkTo(r) : r \in LinkedRevisions}
       \/ /\ root \in BadRootFiles
          /\ listing = <<>>
          /\ manifests = {}
          /\ lkg = NoLink
    /\ marker = TRUE
    /\ revision \in PinnedRevisions
    /\ timeout \in 1..MaxTimeout
    /\ monitorTimeStamp = 0
    /\ now = 1
    /\ healthy = FALSE
    /\ running = TRUE
    /\ last = NoSync
    /\ inflight = Idle

(***************************************************************************)
(* Actions                                                                 *)
(***************************************************************************)
\* the clock is followed until one reading past the deadline
Horizon(stamp) == IF stamp = 0 THEN MaxStart ELSE stamp + timeout + 1

UsedUIDs == {OriginalUID} \cup (IF root.kind = "yaml" THEN {root.pod.uid} ELSE {})

Reached(ops, fail) == fail = "none" \/ \E i \in 1..Len(ops) : ops[i] = fail

\* mutant: wait.Until goes on after the stop channel is closed
Scheduled_Always == TRUE

\* mutant: the loop ends with the first sync that returns an error
Scheduled_UntilError == running /\ last.err = "nil"

\* wait.Until calls syncErrorWrapper until ctx.Done() is closed
Scheduled == running

\* one run of syncErrorWrapper by wait.Until; the call named by fail, if any,
\* is one the run makes.  A sync is short next to the clock's unit: its two
\* readings of time.Now() give the same instant.
Tick(fail) ==
    /\ Scheduled
    /\ \E r \in {sync(FS(root, lkg, marker), fail, now, now, NewUUID(UsedUIDs))} :
         /\ Reached(r.ops, fail)
         /\ root' = r.fs.root
         /\ lkg' = r.fs.lkg
         /\ marker' = r.fs.marker
         /\ monitorTimeStamp' = r.stamp
         /\ last' = [kind |-> "sync", fail |-> fail, outcome |-> r.outcome,
                     err |-> r.err, healthy |-> healthy,
                     healthCalled |-> r.healthCalled, ops |-> r.ops, at |-> now,
                     timedOut |-> (r.stamp # 0 /\ TimedOut(now, r.stamp)),
                     pre |-> [fs |-> FS(root, lkg, marker), stamp |-> monitorTimeStamp]]
    /\ UNCHANGED <<listing, manifests, revision, timeout, now, healthy, running, inflight>>

TickOK == Tick("none")

TickFail == \E fail \in FailPoints : Tick(fail)

AdvanceClock ==
    /\ running
    /\ now < Horizon(monitorTimeStamp)
    /\ now' = now + 1
    /\ UNCHANGED <<root, marker, lkg, listing, manifests, revision, timeout,
                   monitorTimeStamp, healthy, running, last, inflight>>

\* the target becomes healthy or stops being healthy
SetHealth ==
    /\ running
    /\ healthy' = ~healthy
    /\ UNCHANGED <<root, marker, lkg, listing, manifests, revision, timeout,
                   monitorTimeStamp, now, running, last, inflight>>

\* ctx.Done(): SIGTERM or SIGINT, or the kubelet stopping the monitor's pod
Shutdown ==
    /\ running
    /\ running' = FALSE
    /\ UNCHANGED <<root, marker, lkg, listing, manifests, revision, timeout,
                   monitorTimeStamp, now, healthy, last, inflight>>

Next == TickOK \/ TickFail \/ AdvanceClock \/ SetHealth \/ Shutdown

Spec == Init /\ [][Next]_vars

\* the target becomes healthy and stays so
BecomeHealthy ==
    /\ running
    /\ ~healthy
    /\ healthy' = TRUE
    /\ UNCHANGED <<root, marker, lkg, listing, manifests, revision, timeout,
                   monitorTimeStamp, now, running, last, inflight>>

\* The monitor left alone with file-system calls that go through: wait.Until
\* keeps calling sync every probeInterval, the clock keeps running, nothing
\* cancels the context.  A sync that repeats the outcome of the one before at
\* the same reading of the clock is a stuttering step; past the deadline the
\* clock no longer changes what a sync decides and is not followed further.
LiveNext == TickOK \/ AdvanceClock \/ BecomeHealthy

LiveSpec == Init /\ [][LiveNext]_vars /\ WF_vars(TickOK) /\ WF_vars(AdvanceClock)

(***************************************************************************)
(* The monitor on a node where the revision before the pinned one has a    *)
(* revisioned manifest without a revision label, or one that does not      *)
(* decode: the installer copies the pod of the operator as it is, and the  *)
(* directory name alone makes a revision the previous one.                 *)
(***************************************************************************)
CopyListings ==
    { <<Dir(PodDirName(11)), Dir(PodDirName(12))>>,
      <<Dir(PodDirName(10)), Dir(PodDirName(12))>>,
      <<Dir(PodDirName(7)), Dir(PodDirName(12)), Dir(PodDirName(8))>> }

CopyInit ==
    /\ root = RevisionedManifest(12)
    /\ listing \in CopyListings
    /\ manifests = DirRevisions(listing)
    /\ lkg \in {NoLink} \cup {LinkTo(r) : r \in DirRevisions(listing) \ {12}}
    /\ marker = TRUE
    /\ revision = 12
    /\ timeout \in 1..MaxTimeout
    /\ monitorTimeStamp = 0
    /\ now = 1
    /\ healthy = FALSE
    /\ running = TRUE
    /\ last = NoSync
    /\ inflight = Idle

CopySpec == CopyInit /\ [][Next]_vars

(***************************************************************************)
(* The command: the flag --fallback-timeout-duration is validated, then    *)
(* the monitor is built with it and run.                                   *)
(***************************************************************************)
\* values of the flag: a time.Duration is signed
Durations == (0 - 1)..MaxTimeout

\* the flags are parsed and the command has not run yet
Parsed == [at |-> "flags"]

\* klog.Exit ended the process
Exited == [at |-> "exit"]

\* mutant: every timeout is accepted
Validate_AcceptAll(FallbackTimeout) == "nil"

Validate(FallbackTimeout) ==
    IF FallbackTimeout = 0 THEN "--fallback-timeout-duration cannot be 0" ELSE "nil"

CmdInit ==
    /\ root = RevisionedManifest(12)
    /\ listing = <<Dir(PodDirName(7)), Dir(PodDirName(12)), Dir(PodDirName(8))>>
    /\ manifests = DirRevisions(listing)
    /\ lkg = NoLink
    /\ marker = TRUE
    /\ revision = 12
    /\ timeout \in Durations
    /\ monitorTimeStamp = 0
    /\ now = 1
    /\ healthy = FALSE
    /\ running = FALSE
    /\ last = NoSync
    /\ inflight = Parsed

\* the Run function of the cobra command: Validate, klog.Exit on its error,
\* else o.Run() starts the monitor with the timeout of the flag
Command ==
    /\ inflight = Parsed
    /\ IF Validate(timeout) # "nil"
       THEN inflight' = Exited /\ running' = FALSE
       ELSE inflight' = Idle /\ running' = TRUE
    /\ UNCHANGED <<root, marker, lkg, listing, manifests, revision, timeout,
                   monitorTimeStamp, now, healthy, last>>

CmdNext == Command \/ Next

CmdSpec == CmdInit /\ [][CmdNext]_vars

(***************************************************************************)
(* sync interleaved with the installer: the sync is split where it touches *)
(* the root manifest (read and revision check, preparation of the pod,     *)
(* Remove, WriteFile) and the installer writes between the parts.          *)
(***************************************************************************)
\* the revision the installer brings while the monitor runs
InstallerRevision == 13

RaceListings ==
    { <<Dir(PodDirName(7)), Dir(PodDirName(12)), Dir(PodDirName(9))>>,
      <<Dir(PodDirName(8)), Dir(PodDirName(12)), Dir(PodDirName(7))>> }

RaceInit ==
    /\ root \in RootFiles
    /\ listing \in RaceListings
    /\ manifests = DirRevisions(listing)
    /\ lkg \in {NoLink} \cup {LinkTo(r) : r \in LinkedRevisions}
    /\ marker = TRUE
    /\ revision \in PinnedRevisions
    /\ timeout \in 1..MaxTimeout
    /\ monitorTimeStamp = 0
    /\ now = 1
    /\ healthy = FALSE
    /\ running = TRUE
    /\ last = NoSync
    /\ inflight = Idle

\* mutant: the file is created only if the path is free (O_EXCL)
WriteFile_Exclusive(current, bytes) == IF current = NoFile THEN bytes ELSE current

\* ioutil.WriteFile creates the file or truncates the one that is there
WriteFile(current, bytes) == bytes

\* what a sync made of parts did: as in Tick, with the content of the root
\* path that Remove removed and that WriteFile wrote over
RaceRecord(outcome, err, healthCalled, ops, stamp, pre, removed, overwritten, written) ==
    [kind |-> "sync", fail |-> "none", outcome |-> outcome, err |-> err,
     healthy |-> healthy, healthCalled |-> healthCalled, ops |-> ops, at |-> now,
     timedOut |-> (stamp # 0 /\ TimedOut(now, stamp)), pre |-> pre,
     removed |-> removed, overwritten |-> overwritten, written |-> written]

\* lines 93-118: the root manifest is read and checked, the timer started,
\* health and timeout looked at; a sync that does not fall back ends here
RaceCheck ==
    /\ running
    /\ inflight = Idle
    /\ \E r \in {sync(FS(root, lkg, marker), "none", now, now, NewUUID(UsedUIDs))} :
         /\ monitorTimeStamp' = r.stamp
         /\ IF r.outcome = "fallback"
            THEN /\ inflight' = [at |-> "checked",
                                 pre |-> [fs |-> FS(root, lkg, marker), stamp |-> monitorTimeStamp]]
                 /\ UNCHANGED <<root, lkg, marker, last>>
            ELSE /\ root' = r.fs.root
                 /\ lkg' = r.fs.lkg
                 /\ marker' = r.fs.marker
                 /\ last' = RaceRecord(r.outcome, r.err, r.healthCalled, r.ops, r.stamp,
                                       [fs |-> FS(root, lkg, marker), stamp |-> monitorTimeStamp],
                                       NoFile, NoFile, NoFile)
                 /\ UNCHANGED inflight
    /\ UNCHANGED <<listing, manifests, revision, timeout, now, healthy, running>>

\* lines 146-198: the link is looked up or created and the pod to publish is
\* read, annotated and given its uid; nothing of this reads the root manifest
RacePrepare ==
    /\ inflight.at = "checked"
    /\ \E r \in {fallbackToPreviousRevision(FS(root, lkg, marker), "none", NewUUID(UsedUIDs))} :
         /\ lkg' = r.fs.lkg
         /\ IF r.err = "nil" /\ (\E i \in 1..Len(r.ops) : r.ops[i] = "WriteFile:root")
            THEN /\ inflight' = [at |-> "copied", pre |-> inflight.pre, bytes |-> r.fs.root,
                                 ops |-> <<"ReadFile:root">> \o r.ops, removed |-> NoFile]
                 /\ UNCHANGED last
            ELSE /\ inflight' = Idle
                 /\ last' = RaceRecord("fallback", r.err, TRUE, <<"ReadFile:root">> \o r.ops,
                                       monitorTimeStamp, inflight.pre, NoFile, NoFile, NoFile)
    /\ UNCHANGED <<root, marker, listing, manifests, revision, timeout,
                   monitorTimeStamp, now, healthy, running>>

\* lines 200-206: whatever is at the root path is removed
RaceRemove ==
    /\ inflight.at = "copied"
    /\ root' = NoFile
    /\ inflight' = [inflight EXCEPT !.at = "removed", !.removed = root]
    /\ UNCHANGED <<marker, lkg, listing, manifests, revision, timeout,
                   monitorTimeStamp, now, healthy, running, last>>

\* lines 208-212: the pod is written to the root path and sync returns nil
RaceWrite ==
    /\ inflight.at = "removed"
    /\ root' = WriteFile(root, inflight.bytes)
    /\ inflight' = Idle
    /\ last' = RaceRecord("fallback", "nil", TRUE, inflight.ops, monitorTimeStamp,
                          inflight.pre, inflight.removed, root, inflight.bytes)
    /\ UNCHANGED <<marker, lkg, listing, manifests, revision, timeout,
                   monitorTimeStamp, now, healthy, running>>

\* the installer (lines 80-89): the directory and the manifest of the new
\* revision, then the root manifest, written whatever the monitor is doing
InstallerWrite ==
    /\ running
    /\ root # RevisionedManifest(InstallerRevision)
    /\ root' = RevisionedManifest(InstallerRevision)
    /\ listing' = IF InstallerRevision \in DirRevisions(listing) THEN listing
                  ELSE Append(listing, Dir(PodDirName(InstallerRevision)))
    /\ manifests' = manifests \cup {InstallerRevision}
    /\ UNCHANGED <<marker, lkg, revision, timeout, monitorTimeStamp, now, healthy,
                   running, last, inflight>>

RaceNext ==
    RaceCheck \/ RacePrepare \/ RaceRemove \/ RaceWrite \/ InstallerWrite \/ AdvanceClock

RaceSpec == RaceInit /\ [][RaceNext]_vars

(***************************************************************************)
(* The fallback on a root path that another writer emptied after the sync  *)
(* read the root manifest: no lock is held (lines 80-89), and only then    *)
(* does Remove find no file.  The sync is split after its checks; the      *)
(* fallback runs as one step on the files it finds, with the call named by *)
(* fail, if any, failing.                                                  *)
(***************************************************************************)
\* another writer of the manifests directory removes the root manifest
ForeignRemove ==
    /\ inflight.at = "checked"
    /\ root # NoFile
    /\ root' = NoFile
    /\ UNCHANGED <<marker, lkg, listing, manifests, revision, timeout,
                   monitorTimeStamp, now, healthy, running, last, inflight>>

\* lines 141-216 on the files as they are now; the record keeps them in pre
Fallback(fail) ==
    /\ inflight.at = "checked"
    /\ \E r \in {fallbackToPreviousRevision(FS(root, lkg, marker), fail, NewUUID(UsedUIDs))} :
         /\ Reached(r.ops, fail)
         /\ root' = r.fs.root
         /\ lkg' = r.fs.lkg
         /\ last' = [kind |-> "sync", fail |-> fail, outcome |-> "fallback",
                     err |-> r.err, healthy |-> healthy, healthCalled |-> TRUE,
                     ops |-> <<"ReadFile:root">> \o r.ops, at |-> now,
                     timedOut |-> TRUE,
                     pre |-> [fs |-> FS(root, lkg, marker), stamp |-> monitorTimeStamp]]
    /\ inflight' = Idle
    /\ UNCHANGED <<marker, listing, manifests, revision, timeout,
                   monitorTimeStamp, now, healthy, running>>

FallbackOK == Fallback("none")

FallbackFail == \E fail \in FailPoints : Fallback(fail)

RemoveNext == RaceCheck \/ ForeignRemove \/ FallbackOK \/ FallbackFail \/ AdvanceClock

RemoveSpec == RaceInit /\ [][RemoveNext]_vars

(***************************************************************************)
(* findPreviousRevision on its own, over the listings ReadDir can return   *)
(***************************************************************************)
\* entries as in TestFindPreviousRevision: revision directories, plain files,
\* directories without the target prefix, directories with a malformed name
LocEntries ==
    { Dir(PodDirName(7)), Dir(PodDirName(9)), Dir(PodDirName(10)), Dir(PodDirName(12)),
      File(PodDirName(13)), File(<<"T", "-pod-", "F", "F">>),
      Dir(<<"k", "-pod-", "1", "1">>), Dir(<<"k", "-pod-", "F", "F">>),
      Dir(<<"T", "-pod-", "F", "F">>), Dir(<<"T", "-abc-", "1", "1">>),
      Dir(<<"T", "-pod-", "1", "T", "-pod-", "2">>) }

\* a directory holds each name once, in any order
LocListings ==
    {files \in UNION {[1..n -> LocEntries] : n \in 0..MaxEntries} :
        \A i, j \in 1..Len(files) : files[i] = files[j] => i = j}

LocInit ==
    /\ listing \in LocListings
    /\ lkg \in {NoLink, LinkDir, LinkTo(7)}
    /\ manifests = {}
    /\ root = RevisionedManifest(8)
    /\ marker = TRUE
    /\ revision = 8
    /\ timeout = 1
    /\ monitorTimeStamp = 0
    /\ now = 1
    /\ healthy = FALSE
    /\ running = TRUE
    /\ last = NoSync
    /\ inflight = Idle

\* one call of findPreviousRevision; ReadDir fails when fail names it
Locate(fail) ==
    /\ last.kind = "none"
    /\ \E r \in {findPreviousRevision(lkg, fail)} :
         last' = [kind |-> "locate", fail |-> fail,
                  rev |-> r.rev, found |-> r.found, err |-> r.err]
    /\ UNCHANGED <<root, marker, lkg, listing, manifests, revision, timeout,
                   monitorTimeStamp, now, healthy, running, inflight>>

LocateOK == Locate("none")

LocateFail == Locate("ReadDir")

LocNext == LocateOK \/ LocateFail

LocatorSpec == LocInit /\ [][LocNext]_vars

(***************************************************************************)
(* Vocabulary of the properties                                            *)
(***************************************************************************)
CurFS == FS(root, lkg, marker)
Synced == last.kind = "sync"

\* what the latest sync read from the root manifest it started from
PreLoaded == loadRootTargetPodAndExtractRevision(last.pre.fs, last.fail)
PreMatched == PreLoaded.err = "nil" /\ PreLoaded.rev = revision
PreStale == PreLoaded.err = "nil" /\ PreLoaded.rev # revision

Made(op) == \E i \in 1..Len(last.ops) : last.ops[i] = op

RootLabel == IF root.kind = "yaml" THEN root.pod.label ELSE NoLabel

\* the latest sync promoted the target and returned no error
PromotedOK == Synced /\ last.outcome = "promote" /\ last.err = "nil"

\* nothing outside the monitor changed since the latest sync, whose calls all
\* went through: same health answer, same side of the deadline
Undisturbed ==
    /\ Synced /\ last.fail = "none"
    /\ healthy = last.healthy
    /\ (monitorTimeStamp # 0 /\ TimedOut(now, monitorTimeStamp)) = last.timedOut

\* a further sync, run in the current state
Again == sync(CurFS, "none", now, now, NewUUID(UsedUIDs))

\* the previous revision, as the locator finds it when there is no link
Previous == findPreviousRevision(NoLink, "none")

\* the revision with exactly one higher revision in a set
SecondHighest(revs) == CHOOSE r \in revs : Cardinality({q \in revs : q > r}) = 1

\* the latest sync found fewer than two revision directories, or found no
\* manifest for the second highest of them
DeadEnd ==
    \/ Cardinality(DirRevisions(listing)) < 2
    \/ SecondHighest(DirRevisions(listing)) \notin manifests

\* findPreviousRevision was called on its own
Located == last.kind = "locate"

\* what ReadDir returned to it
Seen == ReadDir(lkg, "none").files

\* a directory whose name starts with the target name
Qualifies(file) == file.isDir /\ Len(file.name) >= 1 /\ file.name[1] = "T"

\* a name the installer gives to the directory of a revision
WellFormed(file) == \E r \in 0..13 : file.name = PodDirName(r)

MalformedAt == {i \in 1..Len(Seen) : Qualifies(Seen[i]) /\ ~WellFormed(Seen[i])}

SeenRevisions == {r \in 0..13 : \E i \in 1..Len(Seen) : Seen[i] = Dir(PodDirName(r))}

\* the paths of the revision directories and of the revisioned manifests
RevisionPaths ==
    {<<staticPodResourcesPath, PodDirName(r)>> : r \in 0..13}
        \cup {targetManifestPathFor(r) : r \in 0..13}
        \cup {<<staticPodResourcesPath, listing[i].name>> : i \in 1..Len(listing)}
        \cup {<<staticPodResourcesPath, listing[i].name, PodFileName>> : i \in 1..Len(listing)}

\* the paths the latest sync made a mutating call on
MutatedPaths == {MutatedPath(last.ops[i]) : i \in {j \in 1..Len(last.ops) : last.ops[j] \in Mutating}}

\* the root manifest is one that a fallback of this monitor published
Republished ==
    /\ root.kind = "yaml"
    /\ <<FallbackKey, Itoa(revision)>> \in root.pod.annotations

(***************************************************************************)
(* C1: a sync that reads a root manifest whose revision label differs from *)
(* the pinned revision changes nothing on the file system, does not start  *)
(* the timer, does not call the health predicate and returns no error.     *)
(***************************************************************************)
C1_StaleSyncIsNoOp ==
    (Synced /\ PreStale) =>
        /\ CurFS = last.pre.fs
        /\ monitorTimeStamp = last.pre.stamp
        /\ ~last.healthCalled
        /\ last.err = "nil"
        /\ last.ops = <<"ReadFile:root">>

\* a stale sync while the target is healthy and the marker is still there
C1_Witness == Synced /\ PreStale /\ last.healthy /\ marker /\ last.pre.stamp = 0

(***************************************************************************)
(* C2: when a fallback removed the root manifest and failed to write the   *)
(* new one, the following syncs retry the fallback: a sync that starts     *)
(* without a root manifest and whose file-system calls can all succeed     *)
(* publishes the root manifest again.                                      *)
(***************************************************************************)
C2_FallbackIsRetried ==
    (Synced /\ last.pre.fs.root = NoFile /\ last.fail = "none") =>
        (last.outcome = "fallback" /\ root # NoFile)

(***************************************************************************)
(* C3: createLastKnowGoodRevisionAndDestroy called a second time right     *)
(* after a call that succeeded returns no error and leaves the state of    *)
(* the first call: the link to the pinned revision, no marker.             *)
(***************************************************************************)
C3_PromoteTwice ==
    PromotedOK =>
        /\ createLastKnowGoodRevisionAndDestroy(CurFS, "none").err = "nil"
        /\ createLastKnowGoodRevisionAndDestroy(CurFS, "none").fs = CurFS
        /\ lkg = LinkTo(revision)
        /\ ~marker

(***************************************************************************)
(* C4 as stated: no sequence of syncs leaves the node without a root       *)
(* manifest (every initial state has one).                                 *)
(***************************************************************************)
C4_AlwaysARootManifest == root # NoFile

(***************************************************************************)
(* C4 as amended: the root manifest is missing only after a fallback that  *)
(* removed it and whose WriteFile failed, and it stays missing through the *)
(* syncs that follow, which fail to read it; a sync in which WriteFile     *)
(* does not fail leaves a root manifest wherever it found one.             *)
(***************************************************************************)
C4_MissingOnlyAfterFailedWrite ==
    /\ root = NoFile =>
          /\ Synced
          /\ \/ /\ last.outcome = "fallback"
                /\ last.fail = "WriteFile:root"
                /\ last.pre.fs.root # NoFile
             \/ /\ last.outcome = "error"
                /\ last.pre.fs.root = NoFile
    /\ (Synced /\ last.pre.fs.root # NoFile /\ last.fail # "WriteFile:root") => root # NoFile

\* a fallback lost the root manifest on a failed write and the next sync cannot read it
C4_Witness == root = NoFile /\ Synced /\ last.outcome = "error" /\ last.fail = "none"

(***************************************************************************)
(* C5 as stated: once the marker is removed no later sync changes the      *)
(* last-known-good link or the root manifest.                              *)
(***************************************************************************)
C5_RetiredIsTerminal == [][~marker => (lkg' = lkg /\ root' = root)]_vars

(***************************************************************************)
(* C5 as amended: removing the marker does not stop the monitor.  The      *)
(* marker is never created again, but sync does not look at it: a sync     *)
(* that starts without the marker, on a matching revision, with the target *)
(* unhealthy and the timeout passed, runs the fallback.  Only once the     *)
(* context of Run is cancelled does no sync change anything.               *)
(***************************************************************************)
C5_RetiredKeepsSyncing ==
    /\ []((Synced /\ ~last.pre.fs.marker /\ PreMatched /\ ~last.healthy /\ last.timedOut)
              => last.outcome = "fallback")
    /\ [][~marker => ~marker']_vars
    /\ [][~running => (root' = root /\ lkg' = lkg /\ marker' = marker
                          /\ monitorTimeStamp' = monitorTimeStamp)]_vars

\* after the marker was removed a fallback replaced the root manifest
C5_Witness ==
    /\ Synced /\ ~last.pre.fs.marker /\ last.outcome = "fallback"
    /\ last.err = "nil" /\ root # last.pre.fs.root

(***************************************************************************)
(* C6: when the root manifest carries the pinned revision, the target      *)
(* never becomes healthy, two or more revision directories exist and the   *)
(* manifest of the second highest is there, then syncs whose file-system   *)
(* calls go through eventually replace the root manifest by the last known *)
(* good one.  The two documented corruptions (a directory in place of the  *)
(* link, a revision directory with a malformed name) are set aside.        *)
(***************************************************************************)
C6_EventuallyFallsBack ==
    ( /\ RootLabel = Itoa(revision)
      /\ Previous.err = "nil" /\ Previous.found /\ Previous.rev \in manifests
      /\ lkg # LinkDir
      /\ []~healthy )
        => <>Republished

(***************************************************************************)
(* C7: when the root manifest carries the pinned revision and the target   *)
(* is healthy from some sync on, then syncs whose file-system calls go     *)
(* through eventually leave the link pointing at the revisioned manifest   *)
(* of the pinned revision and no marker, unless a fallback replaced the    *)
(* root manifest before.  A directory in place of the link, the documented *)
(* corruption, is set aside.                                               *)
(***************************************************************************)
C7_EventuallyPromotes ==
    ( /\ RootLabel = Itoa(revision)
      /\ lkg # LinkDir
      /\ <>healthy )
        => <>((lkg = LinkTo(revision) /\ ~marker) \/ RootLabel # Itoa(revision))

(***************************************************************************)
(* C8: monitorTimeStamp is set only by a sync that reads a root manifest   *)
(* with the pinned revision, to the time of that sync, and never changes   *)
(* afterwards; the fallback runs only in a sync whose time is strictly     *)
(* later than monitorTimeStamp + timeout.                                  *)
(***************************************************************************)
C8_FallbackOnlyAfterTimeout ==
    /\ [](Synced /\ last.outcome = "fallback"
             => (monitorTimeStamp # 0 /\ last.at > monitorTimeStamp + timeout))
    /\ [](Synced /\ ~PreMatched => monitorTimeStamp = last.pre.stamp)
    /\ [][monitorTimeStamp # 0 => monitorTimeStamp' = monitorTimeStamp]_vars
    /\ [][monitorTimeStamp # monitorTimeStamp' => monitorTimeStamp' = now]_vars

\* the fallback ran, on a timer that an earlier sync had started
C8_Witness ==
    /\ Synced /\ last.outcome = "fallback" /\ Made("WriteFile:root")
    /\ last.pre.stamp # 0 /\ last.at = last.pre.stamp + timeout + 1

(***************************************************************************)
(* C9: every sync does exactly one of five things, decided in this order:  *)
(* error when the root manifest cannot be loaded, nothing when its         *)
(* revision is not the pinned one, promote when the target is healthy      *)
(* (whether or not the timeout has passed), fallback when the timeout has  *)
(* passed, and wait otherwise.  Promote leaves the root manifest alone,    *)
(* fallback leaves the marker alone, the others leave the file system.     *)
(***************************************************************************)
C9_OneOutcomePerSync ==
    Synced =>
        /\ last.outcome = "error" <=> PreLoaded.err # "nil"
        /\ last.outcome = "stale" <=> PreStale
        /\ last.outcome = "promote" <=> (PreMatched /\ last.healthy)
        /\ last.outcome = "fallback" <=> (PreMatched /\ ~last.healthy /\ last.timedOut)
        /\ last.outcome = "wait" <=> (PreMatched /\ ~last.healthy /\ ~last.timedOut)
        /\ last.outcome = "promote" =>
              /\ root = last.pre.fs.root
              /\ ~Made("ReadDir") /\ ~Made("ReadFile:lkg")
              /\ ~Made("Remove:root") /\ ~Made("WriteFile:root")
        /\ last.outcome = "fallback" => (marker = last.pre.fs.marker /\ ~Made("Remove:marker"))
        /\ last.outcome \in {"error", "stale", "wait"} => CurFS = last.pre.fs

\* a healthy target is promoted although the timeout has passed
C9_Witness ==
    /\ Synced /\ last.outcome = "promote" /\ last.err = "nil"
    /\ last.timedOut /\ last.pre.fs.marker /\ ~marker

(***************************************************************************)
(* C10: sync is idempotent.  In a state left by a sync whose calls all     *)
(* went through, with the health answer and the side of the deadline       *)
(* unchanged, a further sync leaves the file system as it is.              *)
(***************************************************************************)
C10_SyncIsIdempotent == Undisturbed => Again.fs = CurFS

(***************************************************************************)
(* C10 as amended: a further sync leaves the file system as it is, except  *)
(* after a fallback that published a root manifest carrying the pinned     *)
(* revision: the further sync then runs the fallback again and rewrites    *)
(* the root manifest, the same but for a new uid.                          *)
(***************************************************************************)
C10_IdempotentButForRepeatedFallback ==
    Undisturbed =>
        \/ Again.fs = CurFS
        \/ /\ last.outcome = "fallback"
           /\ RootLabel = Itoa(revision)
           /\ Again.outcome = "fallback"
           /\ Again.fs.lkg = lkg
           /\ Again.fs.marker = marker
           /\ Again.fs.root.kind = "yaml"
           /\ Again.fs.root.pod = [root.pod EXCEPT !.uid = Again.fs.root.pod.uid]
           /\ Again.fs.root.pod.uid # root.pod.uid

\* a fallback replaced the root manifest by one of another revision, and a
\* further sync leaves it alone
C10_Witness ==
    /\ Undisturbed /\ last.outcome = "fallback" /\ last.err = "nil"
    /\ root # last.pre.fs.root /\ RootLabel # Itoa(revision)
    /\ Again.fs = CurFS

(***************************************************************************)
(* C11: a sync that puts a last-known-good link in place makes it point at *)
(* the revisioned manifest of the pinned revision, in a sync where the     *)
(* target was healthy, or of the revision that findPreviousRevision chose  *)
(* in that sync and whose manifest existed then.  (Links found at start    *)
(* were left by earlier monitors under the same rule.)                     *)
(***************************************************************************)
C11_LinkIsEarned ==
    [][(lkg' # lkg /\ lkg'.kind = "link") =>
          \/ /\ last'.outcome = "promote"
             /\ healthy
             /\ lkg'.rev = revision
          \/ /\ last'.outcome = "fallback"
             /\ ~healthy
             /\ findPreviousRevision(lkg, "none").found
             /\ lkg'.rev = findPreviousRevision(lkg, "none").rev
             /\ lkg'.rev \in manifests]_vars

\* a fallback created the link, to a revision other than the pinned one
C11_Witness ==
    /\ Synced /\ last.outcome = "fallback"
    /\ last.pre.fs.lkg = NoLink /\ lkg.kind = "link" /\ lkg.rev # revision

(***************************************************************************)
(* C12: a fallback that finds no last-known-good link, two or more         *)
(* revision directories and the manifest of the second highest one, and    *)
(* whose calls go through, creates the link to that manifest, whatever the *)
(* pinned revision, and publishes that manifest as the root manifest.      *)
(***************************************************************************)
C12_FallbackLinksSecondHighest ==
    ( /\ Synced /\ last.outcome = "fallback" /\ last.fail = "none"
      /\ last.pre.fs.lkg = NoLink
      /\ Previous.err = "nil" /\ Previous.found /\ Previous.rev \in manifests )
        => /\ last.err = "nil"
           /\ lkg = LinkTo(Previous.rev)
           /\ Cardinality({r \in DirRevisions(listing) : r > Previous.rev}) = 1
           /\ root.kind = "yaml"
           /\ root.pod.label = Itoa(Previous.rev)
           /\ root.pod = [RevisionedManifest(Previous.rev).pod EXCEPT
                             !.annotations = SetAnnotation(@, FallbackKey, Itoa(revision)),
                             !.uid = root.pod.uid]

\* directories 7, 12, 9 and pinned revision 8: the link points at revision 9
C12_Witness ==
    /\ Synced /\ last.outcome = "fallback" /\ last.fail = "none"
    /\ last.pre.fs.lkg = NoLink
    /\ DirRevisions(listing) = {7, 9, 12} /\ revision = 8
    /\ lkg = LinkTo(9) /\ RootLabel = Itoa(9)

(***************************************************************************)
(* C13: a fallback that finds a last-known-good link to a readable         *)
(* manifest, and whose calls go through, removes the root manifest and     *)
(* then writes one that is the linked manifest with the annotation         *)
(* fallback-for-revision set to the pinned revision in decimal and with a  *)
(* new uid, different from the uid of the linked manifest.                 *)
(***************************************************************************)
C13_FallbackCopiesLinkedManifest ==
    ( /\ Synced /\ last.outcome = "fallback" /\ last.fail = "none"
      /\ last.pre.fs.lkg.kind = "link" /\ last.pre.fs.lkg.rev \in manifests )
        => /\ last.err = "nil"
           /\ last.ops = <<"ReadFile:root", "Stat:lkg", "ReadFile:lkg", "Remove:root", "WriteFile:root">>
           /\ lkg = last.pre.fs.lkg
           /\ root.kind = "yaml"
           /\ <<FallbackKey, Itoa(revision)>> \in root.pod.annotations
           /\ Atoi((CHOOSE p \in root.pod.annotations : p[1] = FallbackKey)[2]).val = revision
           /\ root.pod.uid # RevisionedManifest(lkg.rev).pod.uid
           /\ root.pod.uid # last.pre.fs.root.pod.uid
           /\ root.pod = [RevisionedManifest(lkg.rev).pod EXCEPT
                             !.annotations = SetAnnotation(@, FallbackKey, Itoa(revision)),
                             !.uid = root.pod.uid]

\* the link was there before the sync and the manifest it names replaced the
\* root manifest of the pinned revision
C13_Witness ==
    /\ Synced /\ last.outcome = "fallback" /\ last.fail = "none"
    /\ last.pre.fs.lkg = LinkTo(7) /\ 7 \in manifests
    /\ last.pre.fs.root = RevisionedManifest(revision)
    /\ RootLabel = Itoa(7)

(***************************************************************************)
(* C14: a fallback that finds no last-known-good file and either fewer     *)
(* than two revision directories or no manifest for the previous revision  *)
(* returns no error and changes nothing: no link is created, the root      *)
(* manifest is neither removed nor written.                                *)
(***************************************************************************)
C14_DeadEndChangesNothing ==
    ( /\ Synced /\ last.outcome = "fallback" /\ last.fail = "none"
      /\ StatLkg(last.pre.fs.lkg, "none") = "notexist"
      /\ Previous.err = "nil"
      /\ DeadEnd )
        => /\ last.err = "nil"
           /\ CurFS = last.pre.fs
           /\ ~Made("Symlink") /\ ~Made("Remove:lkg") /\ ~Made("ReadFile:lkg")
           /\ ~Made("Remove:root") /\ ~Made("WriteFile:root")
           /\ Made("Stat:prev") <=> Cardinality(DirRevisions(listing)) >= 2

\* the manifest of the previous revision is gone: the fallback stops there
C14_Witness ==
    /\ Synced /\ last.outcome = "fallback" /\ last.fail = "none"
    /\ last.pre.fs.lkg = NoLink
    /\ Previous.found /\ Previous.rev \notin manifests
    /\ last.err = "nil" /\ lkg = NoLink /\ root = last.pre.fs.root

(***************************************************************************)
(* C15: on a listing without malformed revision directories,               *)
(* findPreviousRevision returns no error and, when two or more revision    *)
(* directories are listed, found with the second largest revision, by      *)
(* value and whatever the order of the listing; otherwise not found with   *)
(* revision 0.                                                             *)
(***************************************************************************)
C15_SecondLargestRevision ==
    (Located /\ last.fail = "none" /\ MalformedAt = {}) =>
        /\ last.err = "nil"
        /\ Cardinality(SeenRevisions) >= 2 =>
              (last.found /\ last.rev = SecondHighest(SeenRevisions))
        /\ Cardinality(SeenRevisions) < 2 => (~last.found /\ last.rev = 0)

\* 12, 9, 10 in this order: 10 is the second largest by value, not as a string
C15_Witness ==
    /\ Located /\ last.fail = "none"
    /\ listing = <<Dir(PodDirName(12)), Dir(PodDirName(9)), Dir(PodDirName(10))>>
    /\ last.found /\ last.rev = 10 /\ last.err = "nil"

(***************************************************************************)
(* C16: findPreviousRevision returns what it returns on the listing        *)
(* without its plain files and without its directories that lack the       *)
(* target prefix: such entries change neither the revision found nor the   *)
(* error, however they are named.                                          *)
(***************************************************************************)
C16_FilesAndForeignDirsIgnored ==
    (Located /\ last.fail = "none") =>
        /\ [rev |-> last.rev, found |-> last.found, err |-> last.err]
              = PreviousOf(CollectRevisions(SelectSeq(Seen, Qualifies)))
        /\ (\A i \in 1..Len(Seen) : ~Qualifies(Seen[i])) =>
              (~last.found /\ last.rev = 0 /\ last.err = "nil")

\* a plain file named like revision 13 between the directories of 12 and 9
C16_Witness ==
    /\ Located /\ last.fail = "none"
    /\ listing = <<Dir(PodDirName(12)), File(PodDirName(13)), Dir(PodDirName(9))>>
    /\ last.found /\ last.rev = 9 /\ last.err = "nil"

(***************************************************************************)
(* C17: findPreviousRevision returns an error, not found and revision 0    *)
(* exactly when a directory with the target prefix has a name that is not  *)
(* a well-formed revision directory name, even when two or more            *)
(* well-formed directories are listed; the error is that of the first      *)
(* such entry: the number does not parse, or the separator does not occur  *)
(* exactly once.                                                           *)
(***************************************************************************)
C17_MalformedDirectoryIsAnError ==
    (Located /\ last.fail = "none") =>
        /\ last.err # "nil" <=> MalformedAt # {}
        /\ MalformedAt # {} =>
              /\ ~last.found /\ last.rev = 0
              /\ LET first == CHOOSE i \in MalformedAt : \A j \in MalformedAt : i <= j
                 IN  last.err = IF Cardinality(SeparatorAt(Seen[first].name)) = 1
                                THEN "atoi" ELSE "format"

\* two well-formed directories and one with a suffix that is no number
C17_Witness ==
    /\ Located /\ last.fail = "none"
    /\ listing = <<Dir(PodDirName(12)), Dir(PodDirName(9)), Dir(<<"T", "-pod-", "F", "F">>)>>
    /\ last.err = "atoi" /\ ~last.found /\ last.rev = 0

(***************************************************************************)
(* C18: when the path of the last-known-good link is a directory, a sync   *)
(* that promotes and a sync that falls back both return an error after the *)
(* Stat of that path and change nothing: no Remove, no Symlink, the marker *)
(* stays, the root manifest is neither removed nor written.                *)
(***************************************************************************)
C18_DirectoryInPlaceOfLink ==
    ( /\ Synced /\ last.outcome \in {"promote", "fallback"}
      /\ last.pre.fs.lkg = LinkDir )
        => /\ last.err # "nil"
           /\ last.fail \in {"none", "Stat:lkg"}
           /\ last.fail = "none" => last.err = "isdir"
           /\ last.ops = <<"ReadFile:root", "Stat:lkg">>
           /\ CurFS = last.pre.fs
           /\ lkg = LinkDir

\* a healthy target is not promoted: the marker is still there
C18_Witness ==
    /\ Synced /\ last.outcome = "promote" /\ last.fail = "none"
    /\ last.pre.fs.lkg = LinkDir /\ last.pre.fs.marker
    /\ last.err = "isdir" /\ marker

(***************************************************************************)
(* C19: with the installer writing while a sync is in progress, the        *)
(* fallback removes whatever is at the root path and writes its manifest   *)
(* over whatever is there, so that a root manifest the installer wrote     *)
(* after the revision check is lost; the installer's write replaces        *)
(* whatever is there, the fallback manifest too, and leaves the monitor's  *)
(* state alone.  After a fallback either party's manifest stands, and no   *)
(* sync returns an error: the loss goes unnoticed.                         *)
(***************************************************************************)
C19_InstallerRaceLosesAWrite ==
    /\ [][(inflight.at = "copied" /\ inflight'.at = "removed") => root' = NoFile]_vars
    /\ [][(inflight.at = "removed" /\ inflight'.at = "idle") =>
              (root' = inflight.bytes /\ last'.outcome = "fallback" /\ last'.err = "nil")]_vars
    /\ [][(inflight' = inflight /\ last' = last /\ root' # root) =>
              (root' = RevisionedManifest(InstallerRevision) /\ monitorTimeStamp' = monitorTimeStamp)]_vars
    /\ []((Synced /\ last.outcome = "fallback" /\ last.written # NoFile /\ inflight = Idle)
              => root \in {last.written, RevisionedManifest(InstallerRevision)})
    /\ [](Synced => last.err = "nil")

\* the installer wrote revision 13 after the check: the fallback removed that
\* manifest and published the last known good one
C19_Witness ==
    /\ Synced /\ last.outcome = "fallback" /\ inflight = Idle
    /\ last.pre.fs.root = RevisionedManifest(revision)
    /\ last.removed = RevisionedManifest(InstallerRevision)
    /\ root = last.written /\ RootLabel # Itoa(InstallerRevision)

(***************************************************************************)
(* C20: once a fallback has published a root manifest whose revision label *)
(* is not the pinned revision, no later sync changes the file system: the  *)
(* fallback is not repeated, the root manifest is not rewritten, and each  *)
(* later sync stops at the revision check (or at a failed read).           *)
(***************************************************************************)
C20_NoOpAfterFallbackToOtherRevision ==
    [][(Republished /\ RootLabel # Itoa(revision)) =>
          /\ root' = root /\ lkg' = lkg /\ marker' = marker
          /\ monitorTimeStamp' = monitorTimeStamp
          /\ last' # last =>
                /\ last'.outcome \in {"stale", "error"}
                /\ last'.outcome = "error" <=> last'.fail = "ReadFile:root"
                /\ last'.ops = <<"ReadFile:root">>]_vars

\* the target is still unhealthy and the timeout long passed, and the sync
\* after the fallback stopped at the revision check
C20_Witness ==
    /\ Synced /\ last.outcome = "stale" /\ last.fail = "none"
    /\ Republished /\ RootLabel # Itoa(revision)
    /\ last.pre.fs.root = root
    /\ ~last.healthy /\ TimedOut(last.at, monitorTimeStamp)

(***************************************************************************)
(* C21: when the root manifest that a fallback published carries the       *)
(* pinned revision, every later sync that finds the target unhealthy runs  *)
(* the fallback again: it removes the root manifest and writes it again,   *)
(* the same but for a new uid.  With the target unhealthy for ever the     *)
(* root manifest keeps being replaced: the monitor never comes to rest.    *)
(***************************************************************************)
C21_FallbackRepeatsOnPinnedRevision ==
    /\ [][(Republished /\ RootLabel = Itoa(revision) /\ last' # last /\ ~healthy) =>
              /\ last'.outcome = "fallback" /\ last'.err = "nil"
              /\ last'.ops = <<"ReadFile:root", "Stat:lkg", "ReadFile:lkg", "Remove:root", "WriteFile:root">>
              /\ root'.kind = "yaml"
              /\ root'.pod.uid # root.pod.uid
              /\ root'.pod = [root.pod EXCEPT !.uid = root'.pod.uid]
              /\ lkg' = lkg /\ marker' = marker]_vars
    /\ \A u \in UIDs :
          (Republished /\ RootLabel = Itoa(revision) /\ root.pod.uid = u /\ []~healthy)
              ~> (Republished /\ RootLabel = Itoa(revision) /\ root.pod.uid # u)

\* a fallback ran over the root manifest that an earlier fallback published
C21_Witness ==
    /\ Synced /\ last.outcome = "fallback" /\ last.err = "nil"
    /\ <<FallbackKey, Itoa(revision)>> \in last.pre.fs.root.pod.annotations
    /\ Republished /\ RootLabel = Itoa(revision)
    /\ root.pod.uid # last.pre.fs.root.pod.uid

(***************************************************************************)
(* C22: a sync whose root manifest cannot be read or decoded, or has no    *)
(* revision label, an empty one, a negative one or one that is no number,  *)
(* returns that error and does nothing else: no file changes, the timer is *)
(* not started, the health predicate is not called.  Nothing is kept for   *)
(* the next sync, which starts by reading the root manifest again.         *)
(***************************************************************************)
C22_UnloadableRootManifest ==
    Synced =>
        /\ ( \/ last.fail = "ReadFile:root"
             \/ last.pre.fs.root \in {NoFile, Garbage}
             \/ last.pre.fs.root.pod.label \in BadLabels ) <=> last.outcome = "error"
        /\ last.outcome = "error" =>
              /\ last.err # "nil"
              /\ last.err = IF last.fail = "ReadFile:root" THEN "ioerr"
                            ELSE IF last.pre.fs.root = NoFile THEN "notexist"
                            ELSE IF last.pre.fs.root = Garbage THEN "decode"
                            ELSE IF last.pre.fs.root.pod.label = NoLabel THEN "nolabel"
                            ELSE IF last.pre.fs.root.pod.label = <<>> THEN "emptylabel"
                            ELSE "invalidlabel"
              /\ CurFS = last.pre.fs
              /\ monitorTimeStamp = last.pre.stamp
              /\ ~last.healthCalled
              /\ last.ops = <<"ReadFile:root">>

\* a negative revision label, while the target is healthy
C22_Witness ==
    /\ Synced /\ last.fail = "none" /\ last.outcome = "error"
    /\ root.kind = "yaml" /\ root.pod.label = <<"-", "1">>
    /\ last.healthy /\ marker /\ monitorTimeStamp = 0

(***************************************************************************)
(* C23: a sync that returns an error does not end the loop: the step       *)
(* leaves running, the pinned revision, the timeout and a time stamp that  *)
(* was set as they were, and as long as the context is not cancelled the   *)
(* next sync can run, whatever the one before returned; once the context   *)
(* is cancelled no sync runs.                                              *)
(***************************************************************************)
C23_ErrorsAreNotFatal ==
    /\ [][(last' # last /\ last'.err # "nil") =>
              /\ running' = running
              /\ revision' = revision
              /\ timeout' = timeout
              /\ (monitorTimeStamp # 0 => monitorTimeStamp' = monitorTimeStamp)]_vars
    /\ []((Synced /\ last.err # "nil" /\ running) => ENABLED TickOK)
    /\ [](~running => ~ENABLED (TickOK \/ TickFail))
    /\ [][(running /\ ~running') => last' = last]_vars

\* the load failed in a sync that came after the time stamp was set
C23_Witness ==
    /\ Synced /\ last.fail = "ReadFile:root" /\ last.err = "ioerr"
    /\ last.pre.stamp # 0 /\ monitorTimeStamp = last.pre.stamp
    /\ running

(***************************************************************************)
(* C24: the root manifest that a fallback wrote, read again through the    *)
(* codec, has the name of the last known good pod, the annotation          *)
(* fallback-for-revision with the pinned revision, every annotation of     *)
(* the last known good pod, and the revision label of the last known good  *)
(* pod, which parses as a non-negative integer.                            *)
(***************************************************************************)
C24_RoundTrip ==
    (Synced /\ last.outcome = "fallback" /\ last.err = "nil" /\ Made("WriteFile:root")) =>
        LET source == ReadPodV1(ReadFileLkg(lkg, "none").bytes).pod
            back   == readTargetPod(ReadFileRoot(root, "none"))
            loaded == loadRootTargetPodAndExtractRevision(CurFS, "none")
        IN  /\ back.err = "nil"
            /\ back.pod.name = source.name
            /\ <<FallbackKey, Itoa(revision)>> \in back.pod.annotations
            /\ source.annotations \subseteq back.pod.annotations
            /\ back.pod.label = source.label
            /\ loaded.err = "nil" /\ loaded.rev >= 0

(***************************************************************************)
(* C25: the command ends with the error of Validate, and starts no         *)
(* monitor, exactly when the fallback timeout is zero; with any other      *)
(* timeout, negative ones too, it starts the monitor with that timeout: no *)
(* sync ever runs with timeout = 0.                                        *)
(***************************************************************************)
C25_ZeroTimeoutIsRejected ==
    /\ inflight = Exited => (timeout = 0 /\ ~running /\ ~Synced)
    /\ (inflight # Parsed /\ timeout = 0) => inflight = Exited
    /\ (inflight # Parsed /\ timeout # 0) => inflight = Idle
    /\ (running \/ Synced) => (timeout # 0 /\ inflight = Idle)

C25_Witness == inflight = Exited /\ timeout = 0 /\ ~running

(***************************************************************************)
(* C26: every step that removes the marker is a promote that returned no   *)
(* error and whose Remove of the marker is its last call, made right after *)
(* the Symlink that created the link to the manifest of the pinned         *)
(* revision: when the marker goes, the link is there and names the pinned  *)
(* revision.                                                               *)
(***************************************************************************)
C26_MarkerRemovedAfterLink ==
    [][(marker /\ ~marker') =>
          /\ last'.outcome = "promote" /\ last'.err = "nil" /\ last'.healthy
          /\ Len(last'.ops) >= 2
          /\ last'.ops[Len(last'.ops)] = "Remove:marker"
          /\ last'.ops[Len(last'.ops) - 1] = "Symlink"
          /\ lkg' = LinkTo(revision)]_vars

\* the link to revision 7 is replaced by the link to the pinned revision 12,
\* then the marker is removed
C26_Witness ==
    /\ Synced /\ last.outcome = "promote" /\ last.err = "nil"
    /\ last.pre.fs.marker /\ ~marker
    /\ last.pre.fs.lkg = LinkTo(7) /\ revision = 12 /\ lkg = LinkTo(12)
    /\ last.ops = <<"ReadFile:root", "Stat:lkg", "Remove:lkg", "Symlink", "Remove:marker">>

(***************************************************************************)
(* C27: a promote stops at its first failing call.  When Stat of the link  *)
(* path fails, or finds a directory, no file changes and no further call   *)
(* is made; when Remove of the old link fails, Symlink is not called, the  *)
(* old link stays and the marker stays; when Symlink fails, Remove of the  *)
(* marker is not called and the marker stays.                              *)
(***************************************************************************)
C27_PromoteStopsAtFirstFailure ==
    (Synced /\ last.outcome = "promote") =>
        /\ (StatLkg(last.pre.fs.lkg, last.fail) \in {"ioerr", "dir"}) =>
              /\ last.err # "nil"
              /\ last.ops = <<"ReadFile:root", "Stat:lkg">>
              /\ CurFS = last.pre.fs
        /\ (last.fail = "Remove:lkg") =>
              /\ last.err = "ioerr"
              /\ last.ops = <<"ReadFile:root", "Stat:lkg", "Remove:lkg">>
              /\ CurFS = last.pre.fs
        /\ (Made("Symlink") /\ SymlinkErr(IF Made("Remove:lkg") THEN NoLink ELSE last.pre.fs.lkg,
                                          last.fail) # "nil") =>
              /\ last.err \in {"ioerr", "eexist"}
              /\ last.ops[Len(last.ops)] = "Symlink"
              /\ ~Made("Remove:marker")
              /\ marker = last.pre.fs.marker
              /\ root = last.pre.fs.root
              /\ lkg = (IF Made("Remove:lkg") THEN NoLink ELSE last.pre.fs.lkg)
        /\ (last.err # "nil" /\ ~Made("Remove:marker")) => marker = last.pre.fs.marker

\* the old link, to revision 7, could not be removed
C27_Witness ==
    /\ Synced /\ last.outcome = "promote" /\ last.fail = "Remove:lkg"
    /\ last.pre.fs.lkg = LinkTo(7) /\ lkg = LinkTo(7)
    /\ marker /\ last.err = "ioerr"

(***************************************************************************)
(* C28: after a promote that created the link to the pinned revision and   *)
(* failed to remove the marker, the link is in place and the marker is     *)
(* there; a further sync with the target healthy and every call going      *)
(* through is a promote that returns no error and leaves the link to the   *)
(* pinned revision and no marker.                                          *)
(***************************************************************************)
C28_PromoteIsRetried ==
    (/\ Synced /\ last.outcome = "promote" /\ last.fail = "Remove:marker"
     /\ Made("Remove:marker") /\ last.pre.fs.marker /\ healthy) =>
        /\ last.err = "ioerr"
        /\ lkg = LinkTo(revision) /\ marker
        /\ Again.outcome = "promote" /\ Again.err = "nil"
        /\ Again.fs.lkg = LinkTo(revision) /\ ~Again.fs.marker

(***************************************************************************)
(* C29: a fallback that finds a file behind the link path makes no ReadDir *)
(* and no Stat of a revisioned manifest, and neither Remove nor Symlink on *)
(* the link path: the link after it is the link before it, and the root    *)
(* manifest it writes is the pod of the manifest that link names, with the *)
(* annotation and a new uid.                                               *)
(***************************************************************************)
C29_ExistingLinkIsKept ==
    (/\ Synced /\ last.outcome = "fallback"
     /\ StatLkg(last.pre.fs.lkg, last.fail) = "file") =>
        /\ ~Made("ReadDir") /\ ~Made("Stat:prev")
        /\ ~Made("Remove:lkg") /\ ~Made("Symlink")
        /\ last.ops[2] = "Stat:lkg" /\ last.ops[3] = "ReadFile:lkg"
        /\ lkg = last.pre.fs.lkg
        /\ last.err = "nil" =>
              /\ root.kind = "yaml"
              /\ root.pod.name = RevisionedManifest(last.pre.fs.lkg.rev).pod.name
              /\ root.pod.label = RevisionedManifest(last.pre.fs.lkg.rev).pod.label
              /\ root.pod.annotations =
                    SetAnnotation(RevisionedManifest(last.pre.fs.lkg.rev).pod.annotations,
                                  FallbackKey, Itoa(revision))

\* the link names revision 7 while the locator would find revision 9
C29_Witness ==
    /\ Synced /\ last.outcome = "fallback" /\ last.err = "nil"
    /\ last.pre.fs.lkg = LinkTo(7) /\ lkg = LinkTo(7)
    /\ listing = <<Dir(PodDirName(7)), Dir(PodDirName(12)), Dir(PodDirName(9))>>
    /\ 9 \in manifests
    /\ root.kind = "yaml" /\ root.pod.label = Itoa(7)

(***************************************************************************)
(* C30: a fallback whose read of the manifest behind the link fails, or    *)
(* reads bytes that decode to no pod, returns that error with the root     *)
(* manifest as it was: no Remove and no WriteFile on the root path.  A     *)
(* link that the same fallback created stays.                              *)
(***************************************************************************)
C30_UnreadableLinkedManifest ==
    (/\ Synced /\ last.outcome = "fallback" /\ Made("ReadFile:lkg")
     /\ readTargetPod(ReadFileLkg(lkg, last.fail)).err # "nil") =>
        /\ last.err = readTargetPod(ReadFileLkg(lkg, last.fail)).err
        /\ last.err \in {"ioerr", "decode"}
        /\ last.ops[Len(last.ops)] = "ReadFile:lkg"
        /\ ~Made("Remove:root") /\ ~Made("WriteFile:root")
        /\ root = last.pre.fs.root
        /\ marker = last.pre.fs.marker
        /\ Made("Symlink") => (last.pre.fs.lkg = NoLink /\ lkg = LinkTo(SecondHighest(DirRevisions(listing))))
        /\ ~Made("Symlink") => lkg = last.pre.fs.lkg

\* the link to revision 10 was created by the fallback that could not decode
\* the manifest of revision 10
C30_Witness ==
    /\ Synced /\ last.outcome = "fallback" /\ last.fail = "none"
    /\ last.err = "decode"
    /\ last.pre.fs.lkg = NoLink /\ lkg = LinkTo(10)
    /\ root = RevisionedManifest(12)

(***************************************************************************)
(* C31: in a fallback, Remove of the root manifest that finds no file does *)
(* not end the fallback: WriteFile is called and, unless it fails, the     *)
(* pod is published and no error returned.  Any other error of Remove is   *)
(* returned, WriteFile is not called and the root path is left as it was.  *)
(* WriteFile is called only right after a Remove that succeeded or found   *)
(* no file.                                                                *)
(***************************************************************************)
C31_RemoveToleratesAbsence ==
    (Synced /\ last.outcome = "fallback" /\ Made("Remove:root") /\ inflight = Idle) =>
        /\ (last.pre.fs.root = NoFile /\ last.fail # "Remove:root") =>
              /\ Made("WriteFile:root")
              /\ last.fail # "WriteFile:root" => (last.err = "nil" /\ Republished)
        /\ (last.fail = "Remove:root") =>
              /\ last.err = "ioerr"
              /\ ~Made("WriteFile:root")
              /\ last.ops[Len(last.ops)] = "Remove:root"
              /\ root = last.pre.fs.root
        /\ Made("WriteFile:root") =>
              /\ last.ops[Len(last.ops)] = "WriteFile:root"
              /\ last.ops[Len(last.ops) - 1] = "Remove:root"
              /\ RemoveErr(last.pre.fs.root # NoFile, last.fail = "Remove:root")
                    \in {"nil", "notexist"}

\* the root manifest was gone when the fallback removed it, and the pod of
\* the last known good revision was published all the same
C31_Witness ==
    /\ Synced /\ last.outcome = "fallback" /\ last.fail = "none" /\ inflight = Idle
    /\ last.pre.fs.root = NoFile
    /\ Made("Remove:root") /\ Made("WriteFile:root")
    /\ last.err = "nil" /\ Republished

(***************************************************************************)
(* C32: the marker changes only in a sync that read a root manifest of the *)
(* pinned revision, got true from the health check and ran the promote,    *)
(* and the change is its removal.  A sync that ran the fallback leaves the *)
(* marker as it was and makes no Remove of it, whether the fallback        *)
(* published a pod, returned an error or found nothing to fall back to.    *)
(***************************************************************************)
C32_OnlyPromoteRemovesMarker ==
    /\ [][marker' # marker =>
              /\ marker /\ ~marker'
              /\ last'.kind = "sync" /\ last'.outcome = "promote"
              /\ last'.healthCalled /\ last'.healthy
              /\ loadRootTargetPodAndExtractRevision(FS(root, lkg, marker), last'.fail)
                    = [rev |-> revision, err |-> "nil"]]_vars
    /\ []((Synced /\ last.outcome = "fallback") =>
              /\ marker = last.pre.fs.marker
              /\ ~Made("Remove:marker")
              /\ ~last.healthy)

\* the fallback linked the previous revision and published its pod; the
\* marker is still there
C32_Witness ==
    /\ Synced /\ last.outcome = "fallback" /\ last.err = "nil"
    /\ Made("Symlink") /\ Made("WriteFile:root")
    /\ last.pre.fs.marker /\ marker
    /\ Republished

(***************************************************************************)
(* C33: no step of the monitor changes the revision directories or the     *)
(* revisioned manifests.  The mutating calls of a sync are made on three   *)
(* paths only: under the static resources root the link path, which is     *)
(* neither a revision directory nor a revisioned manifest; under the       *)
(* manifests root the root manifest, in a fallback only, and the marker,   *)
(* in a promote only.  The root manifest changes in fallbacks only, the    *)
(* marker in promotes only, the link in promotes and fallbacks only.       *)
(***************************************************************************)
C33_RevisionsAreReadOnly ==
    /\ [][listing' = listing /\ manifests' = manifests]_vars
    /\ [](Synced =>
            /\ MutatedPaths \subseteq
                  {lastKnownGoodManifestDstPath, rootTargetManifestPath, monitorManifestPath}
            /\ MutatedPaths \cap RevisionPaths = {}
            /\ \A q \in MutatedPaths :
                  /\ q[1] = staticPodResourcesPath => q = lastKnownGoodManifestDstPath
                  /\ q = rootTargetManifestPath => last.outcome = "fallback"
                  /\ q = monitorManifestPath => last.outcome = "promote")
    /\ [][/\ root' # root => last'.outcome = "fallback"
          /\ marker' # marker => last'.outcome = "promote"
          /\ lkg' # lkg => last'.outcome \in {"promote", "fallback"}]_vars

\* a fallback that created the link to revision 9 and replaced the root
\* manifest, with the directories and manifests of 7, 9 and 12 as they were
C33_Witness ==
    /\ Synced /\ last.outcome = "fallback" /\ last.err = "nil"
    /\ MutatedPaths = {lastKnownGoodManifestDstPath, rootTargetManifestPath}
    /\ lkg = LinkTo(9) /\ manifests = {7, 9, 12}
    /\ DirRevisions(listing) = {7, 9, 12}
    /\ root # last.pre.fs.root

(***************************************************************************)
(* C34: when fileExists reports that nothing exists at the link path, the  *)
(* Symlink that follows, if it is not made to fail, creates the link: a    *)
(* promote then ends with the link to the pinned revision and no marker, a *)
(* fallback with the link to the previous revision and its pod published,  *)
(* and neither returns an error, also when the path holds a link whose     *)
(* target is gone.                                                         *)
(***************************************************************************)
C34_SymlinkFindsPathFree ==
    (/\ Synced /\ last.fail = "none" /\ Made("Symlink")
     /\ fileExists(StatLkg(last.pre.fs.lkg, "none")) = [exists |-> FALSE, err |-> "nil"]) =>
        /\ last.err = "nil"
        /\ last.outcome = "promote" => (lkg = LinkTo(revision) /\ ~marker)
        /\ last.outcome = "fallback" =>
              (lkg = LinkTo(SecondHighest(DirRevisions(listing))) /\ Republished)

====
